---- MODULE Spec2Model ----
(***************************************************************************)
(* Model of latex2wordpress: the Converter class (src/latex2wordpress.py)  *)
(* and its driver main() (src/l2wp.py).                                    *)
(*                                                                         *)
(* Text is a sequence of lexemes (TLA+ strings).  A lexeme is either one   *)
(* character that the patterns treat individually ("\\", "{", "}", "'",    *)
(* "$", a line break, a word character) or a whole directive name that the *)
(* patterns only ever match as a unit ("\\begin{equation}", "\\label",     *)
(* "\\eqref", ...).  Layout white space that the patterns skip with \s* is *)
(* not represented.  Every regular expression of the source is a list of   *)
(* literal lexeme runs separated by gaps (.*? , .* or [\s\S]*?), and is    *)
(* matched the way Python's re matches it: leftmost, lazy or greedy gaps,  *)
(* non-overlapping, a gap written with "." never crossing a line break,    *)
(* and at most `count` matches replaced.                                   *)
(***************************************************************************)
EXTENDS Integers, Sequences, FiniteSets, TLC

VARIABLES content, working, newcommand_map, labelmap, texfile_name,
          outfile, pc, err, last, before

vars == <<content, working, newcommand_map, labelmap, texfile_name,
          outfile, pc, err, last, before>>

----------------------------------------------------------------------------
(* Lexemes *)

NL == "\n"
BS == "\\"
BeginDocument == "\\begin{document}"
EndDocument == "\\end{document}"
BeginEquation == "\\begin{equation}"
EndEquation == "\\end{equation}"
BeginAlign == "\\begin{align}"
EndAlign == "\\end{align}"

WordTok == {"R", "Q", "a", "b", "c", "x", "y", "1", "2"}
DigitTok == {"1", "2"}

\* re.DOTALL, which the source passes in the position of re.sub's `count`
DOTALL == 16

----------------------------------------------------------------------------
(* The regular-expression engine, on lexeme sequences *)

Min(S) == CHOOSE x \in S : \A y \in S : x <= y
Max(S) == CHOOSE x \in S : \A y \in S : x >= y

Pattern(lits, dotall, greedy) ==
    [lits |-> lits, dotall |-> dotall, greedy |-> greedy, never |-> FALSE]

MatchAt(s, lit, i) ==
    /\ i >= 1
    /\ i + Len(lit) - 1 <= Len(s)
    /\ \A k \in 1..Len(lit) : s[i + k - 1] = lit[k]

\* where a gap starting at `from` may end so that `lit` follows it
GapEnds(s, lit, from, dotall) ==
    {j \in from..(Len(s) + 1) :
        /\ MatchAt(s, lit, j)
        /\ (dotall \/ \A k \in from..(j - 1) : s[k] # NL)}

\* a lazy gap ends at the first such place, a greedy one at the last; 0: none
PickEnd(C, greedy) == IF C = {} THEN 0 ELSE IF greedy THEN Max(C) ELSE Min(C)

Find(s, lit, from, dotall, greedy) == PickEnd(GapEnds(s, lit, from, dotall), greedy)

NoMatch == [end |-> 0, caps |-> <<>>]

Capture(cap, r) ==
    IF r.end = 0 THEN NoMatch ELSE [end |-> r.end, caps |-> <<cap>> \o r.caps]

\* literals k.. of the pattern, each after a gap; pos is the next unread place
RECURSIVE MatchRest(_, _, _, _)
MatchFound(s, pat, k, pos, j) ==
    IF j = 0 THEN NoMatch
    ELSE Capture(SubSeq(s, pos, j - 1),
                 MatchRest(s, pat, k + 1, j + Len(pat.lits[k])))

MatchRest(s, pat, k, pos) ==
    IF k > Len(pat.lits) THEN [end |-> pos, caps |-> <<>>]
    ELSE MatchFound(s, pat, k, pos,
                    Find(s, pat.lits[k], pos, pat.dotall, pat.greedy))

\* a match of the pattern starting exactly at place i (end: one past it)
MatchHere(s, pat, i) ==
    IF pat.never \/ ~MatchAt(s, pat.lits[1], i) THEN NoMatch
    ELSE MatchRest(s, pat, 2, i + Len(pat.lits[1]))

MatchRecord(j, m) == [start |-> j, end |-> m.end, caps |-> m.caps]

Leftmost(S) == CHOOSE r \in S : \A q \in S : r.start <= q.start

\* re.finditer / re.sub's scan: leftmost non-overlapping matches from place
\* i on, n already made, at most `count` of them (count = 0: all)
RECURSIVE Scan(_, _, _, _, _)
ScanOn(s, pat, count, n, m) == <<m>> \o Scan(s, pat, count, m.end, n + 1)

ScanNext(s, pat, count, n, S) ==
    IF S = {} THEN <<>> ELSE ScanOn(s, pat, count, n, Leftmost(S))

Scan(s, pat, count, i, n) ==
    IF count # 0 /\ n >= count THEN <<>>
    ELSE ScanNext(s, pat, count, n,
                  {r \in {MatchRecord(j, MatchHere(s, pat, j)) : j \in i..Len(s)} :
                      r.end # 0})

Matches(s, pat, count) == Scan(s, pat, count, 1, 0)

\* the text with match k replaced by repl[k]
RECURSIVE Splice(_, _, _, _, _)
Splice(s, ms, repl, k, pos) ==
    IF k > Len(ms) THEN SubSeq(s, pos, Len(s))
    ELSE SubSeq(s, pos, ms[k].start - 1) \o repl[k]
         \o Splice(s, ms, repl, k + 1, ms[k].end)

\* a replacement template: items are literal text (g = 0) or group g
Lit(t) == [g |-> 0, t |-> t]
Grp(n) == [g |-> n, t |-> <<>>]

RECURSIVE Expand(_, _)
Expand(tpl, caps) ==
    IF tpl = <<>> THEN <<>>
    ELSE (IF Head(tpl).g = 0 THEN Head(tpl).t ELSE caps[Head(tpl).g])
         \o Expand(Tail(tpl), caps)

SubMatches(s, ms, tpl) ==
    Splice(s, ms, [k \in 1..Len(ms) |-> Expand(tpl, ms[k].caps)], 1, 1)

\* re.sub(pattern, template, s, count)
Sub(s, pat, tpl, count) == SubMatches(s, Matches(s, pat, count), tpl)

Ok(out) == [err |-> "none", out |-> out]
Raise(e, out) == [err |-> e, out |-> out]

\* re.sub(pattern, callback, w, count): the callbacks run match by match
\* (rs[k] is what the callback gave for match k), and the first exception
\* leaves the call without a result
FirstError(rs) ==
    IF \A k \in DOMAIN rs : rs[k].err = "none" THEN "none"
    ELSE rs[Min({k \in DOMAIN rs : rs[k].err # "none"})].err

\* a variant that keeps the replacements made before the first exception
SubCallbackPartial(w, ms, rs) ==
    IF FirstError(rs) # "none"
    THEN Raise(FirstError(rs),
               Splice(w, SubSeq(ms, 1, Min({k \in DOMAIN rs : rs[k].err # "none"}) - 1),
                      [k \in 1..Len(ms) |-> rs[k].out], 1, 1))
    ELSE Ok(Splice(w, ms, [k \in 1..Len(ms) |-> rs[k].out], 1, 1))

SubCallback(w, ms, rs) ==
    IF FirstError(rs) # "none" THEN Raise(FirstError(rs), w)
    ELSE Ok(Splice(w, ms, [k \in 1..Len(ms) |-> rs[k].out], 1, 1))

\* the text of each match (group 0)
Groups0(w, ms) == [k \in 1..Len(ms) |-> SubSeq(w, ms[k].start, ms[k].end - 1)]

----------------------------------------------------------------------------
(* Converter._escape_special, and what re makes of an escaped string *)

\* str.encode("string_escape"), lexeme by lexeme: a backslash is doubled, a
\* line break becomes backslash-n, a single quote becomes backslash-quote.
\* (A directive name is a backslash and letters: its escaped form is written
\* as the name itself, and reads back as itself both ways below.)
EscapeTok(t) ==
    IF t = BS THEN "\\\\" ELSE IF t = NL THEN "\\n" ELSE IF t = "'" THEN "\\'" ELSE t

_escape_special(s) == [k \in 1..Len(s) |-> EscapeTok(s[k])]

\* an escaped string used as a replacement template (sre_parse.parse_template):
\* \\ is a backslash, \n a line break, an unknown escape such as \' is kept
TemplateTok(e) ==
    IF e = "\\\\" THEN <<BS>> ELSE IF e = "\\n" THEN <<NL>>
    ELSE IF e = "\\'" THEN <<BS, "'">> ELSE <<e>>

RECURSIVE TemplateText(_)
TemplateText(e) ==
    IF e = <<>> THEN <<>> ELSE TemplateTok(Head(e)) \o TemplateText(Tail(e))

\* an escaped string used as a pattern: \\ matches a backslash, \n a line
\* break, \' a quote; "{" digits "}" after a character is a repeat count
RegexTok(e) ==
    IF e = "\\\\" THEN BS ELSE IF e = "\\n" THEN NL ELSE IF e = "\\'" THEN "'" ELSE e

RECURSIVE DigitRun(_, _)
DigitRun(e, i) ==
    IF i <= Len(e) /\ e[i] \in DigitTok THEN 1 + DigitRun(e, i + 1) ELSE 0

RepeatOf(e, i, d) == i > 1 /\ e[i] = "{" /\ d > 0 /\ MatchAt(e, <<"}">>, i + 1 + d)

RepeatAt(e, i) == RepeatOf(e, i, DigitRun(e, i + 1))

DigitValue(t) == IF t = "1" THEN 1 ELSE 2

RECURSIVE RepeatCount(_)
RepeatCount(ds) ==
    IF ds = <<>> THEN 0
    ELSE 10 * RepeatCount(SubSeq(ds, 1, Len(ds) - 1)) + DigitValue(ds[Len(ds)])

OneCharacter(e) == e \in (WordTok \cup {"{", "}", "$", "'", "\\\\", "\\n", "\\'"})

\* a repeated character: a one-character lexeme is repeated n times; a
\* directive name repeats its last letter, which matches the name itself for
\* n = 1 and no text of lexemes otherwise
Repeated(e, n, r) ==
    [lit |-> [k \in 1..(IF OneCharacter(e) THEN n ELSE 1) |-> RegexTok(e)] \o r.lit,
     never |-> r.never \/ (~OneCharacter(e) /\ n # 1)]

Literal(e, r) == [lit |-> <<RegexTok(e)>> \o r.lit, never |-> r.never]

\* the literal run the pattern matches, and whether nothing can match it
RECURSIVE CompileFrom(_, _)
CompileRepeat(e, i, d) ==
    Repeated(e[i], RepeatCount(SubSeq(e, i + 2, i + 1 + d)), CompileFrom(e, i + d + 3))

CompileFrom(e, i) ==
    IF i > Len(e) THEN [lit |-> <<>>, never |-> FALSE]
    ELSE IF i < Len(e) /\ RepeatAt(e, i + 1)
         THEN CompileRepeat(e, i, DigitRun(e, i + 2))
         ELSE Literal(e[i], CompileFrom(e, i + 1))

CompiledPattern(c) ==
    [lits |-> <<c.lit>>, dotall |-> FALSE, greedy |-> FALSE,
     never |-> c.never \/ c.lit = <<>>]

\* re.compile of an escaped string
CompileEscaped(e) == CompiledPattern(CompileFrom(e, 1))

----------------------------------------------------------------------------
(* Converter._generate_newcommand_map *)

RECURSIVE WordRun(_, _)
WordRun(s, i) ==
    IF i <= Len(s) /\ s[i] \in WordTok THEN 1 + WordRun(s, i + 1) ELSE 0

NoDecl == [start |-> 0, end |-> 0, name |-> <<>>, body |-> <<>>]

\* \\newcommand\{(\\\w+)\}\{(.*?)\}\n under re.DOTALL, at place i: the name
\* is a backslash and n word characters, the body ends at place j
DeclBody(s, i, n, j) ==
    IF j = 0 THEN NoDecl
    ELSE [start |-> i, end |-> j + 2, name |-> SubSeq(s, i + 2, i + 2 + n),
          body |-> SubSeq(s, i + 5 + n, j - 1)]

DeclName(s, i, n) ==
    IF n = 0 \/ ~MatchAt(s, <<"}", "{">>, i + 3 + n) THEN NoDecl
    ELSE DeclBody(s, i, n, Find(s, <<"}", NL>>, i + 5 + n, TRUE, FALSE))

DeclAt(s, i) ==
    IF ~MatchAt(s, <<"\\newcommand", "{", BS>>, i) THEN NoDecl
    ELSE DeclName(s, i, WordRun(s, i + 3))

RECURSIVE Decls(_, _)
DeclsOn(s, d) == <<d>> \o Decls(s, d.end)

DeclsNext(s, S) == IF S = {} THEN <<>> ELSE DeclsOn(s, Leftmost(S))

Decls(s, i) == DeclsNext(s, {d \in {DeclAt(s, j) : j \in i..Len(s)} : d.end # 0})

\* dict(findall(...)): the last declaration of a name wins
DictOf(ds) ==
    [nm \in {ds[k].name : k \in 1..Len(ds)} |->
        ds[Max({k \in 1..Len(ds) : ds[k].name = nm})].body]

_generate_newcommand_map(s) == DictOf(Decls(s, 1))

----------------------------------------------------------------------------
(* The passes, as functions of the buffer and the tables *)

PatDocument == Pattern(<< <<BeginDocument>>, <<EndDocument>> >>, TRUE, TRUE)

FirstGroup(w, ms) == IF ms = <<>> THEN w ELSE ms[1].caps[1]

\* a variant with a lazy gap: it stops at the nearest end marker
extract_text_nearest(w) ==
    FirstGroup(w, Matches(w, Pattern(<< <<BeginDocument>>, <<EndDocument>> >>,
                                     TRUE, FALSE), 1))

\* re.findall(...)[0] inside try/except: the first match's group, or no change
extract_text(w) == FirstGroup(w, Matches(w, PatDocument, 1))

\* one iteration of the loop of convert_newcommands
SubstituteMacro(w, name, body) ==
    Sub(w, CompileEscaped(_escape_special(name)),
        <<Lit(TemplateText(_escape_special(body)))>>, 0)

\* the loop over newcommand_map.items(), in the dictionary's order `ord`
RECURSIVE convert_newcommands(_, _, _)
convert_newcommands(w, map, ord) ==
    IF ord = <<>> THEN w
    ELSE convert_newcommands(SubstituteMacro(w, Head(ord), map[Head(ord)]),
                             map, Tail(ord))

\* the orders in which a dictionary with these keys may be iterated
Orders(S) ==
    {o \in [1..Cardinality(S) -> S] : \A i, j \in DOMAIN o : o[i] = o[j] => i = j}

PatTitle == Pattern(<< <<"\\title", "{">>, <<"}">> >>, FALSE, TRUE)
PatAuthor == Pattern(<< <<"\\author", "{">>, <<"}">> >>, FALSE, TRUE)

strip_title_elements(w) ==
    Sub(Sub(w, PatTitle, <<>>, DOTALL), PatAuthor, <<>>, DOTALL)

PatInlineMath == Pattern(<< <<"$">>, <<"$">> >>, FALSE, FALSE)

convert_inline_math(w) ==
    Sub(w, PatInlineMath, <<Lit(<<"$", "latex ">>), Grp(1), Lit(<<"$">>)>>, 0)

----------------------------------------------------------------------------
(* Equation and align environments *)

PatLabel == Pattern(<< <<"\\label", "{">>, <<"}">> >>, FALSE, FALSE)
PatEquation == Pattern(<< <<BeginEquation>>, <<EndEquation>> >>, TRUE, FALSE)
PatAlign == Pattern(<< <<BeginAlign>>, <<EndAlign>> >>, TRUE, FALSE)

\* a variant of the suffix: four blanks, then the parenthesized number
FourBlanksSuffix(n) == <<" ", " ", " ", " ", "(", n, ")">>

\* "\ \ \ \ \ (%s)" % number: five backslash-space pairs, which the template
\* keeps as they are (an unknown escape), then the parenthesized number
NumberSuffix(n) == <<"\\ ", "\\ ", "\\ ", "\\ ", "\\ ", "(", n, ")">>

EquationOpen == <<"<p align=\"center\"> ", NL, " $latex \\displaystyle ">>
EquationClose == <<" $</p>">>
AlignOpen == <<"<p align = \"center\"> ", NL, " $latex ", NL,
               " \\begin{aligned} ", NL, "\t">>
AlignClose == <<" ", NL, "\\end{aligned}", NL, "$ ", NL, "<p>">>

\* the try block of _process_equation: labs are the \label{...} found; the
\* first one's number replaces the labels of the block (count = re.DOTALL)
NumberEquation(eqstring, labs, lmap) ==
    IF labs = <<>> THEN Ok(eqstring)
    ELSE IF labs[1].caps[1] \notin DOMAIN lmap THEN Raise("KeyError", eqstring)
    ELSE Ok(Sub(eqstring, PatLabel,
                <<Lit(NumberSuffix(lmap[labs[1].caps[1]]))>>, DOTALL))

StripEquationTags(r) ==
    IF r.err # "none" THEN r
    ELSE Ok(Sub(r.out, PatEquation,
                <<Lit(EquationOpen), Grp(1), Lit(EquationClose)>>, DOTALL))

\* the callback of convert_equations, on one matched block
_process_equation(eqstring, lmap) ==
    StripEquationTags(NumberEquation(eqstring, Matches(eqstring, PatLabel, 0), lmap))

\* the loop of _process_align over the labels found, count=1 each
RECURSIVE NumberLabels(_, _, _, _)
NumberLabels(al, labs, k, lmap) ==
    IF k > Len(labs) THEN Ok(al)
    ELSE IF labs[k].caps[1] \notin DOMAIN lmap THEN Raise("KeyError", al)
    ELSE NumberLabels(Sub(al, PatLabel,
                          <<Lit(NumberSuffix(lmap[labs[k].caps[1]]))>>, 1),
                      labs, k + 1, lmap)

StripAlignTags(r) ==
    IF r.err # "none" THEN r
    ELSE Ok(Sub(r.out, PatAlign,
                <<Lit(AlignOpen), Grp(1), Lit(AlignClose)>>, DOTALL))

\* the callback of convert_aligned, on one matched block
_process_align(align_string, lmap) ==
    StripAlignTags(NumberLabels(align_string,
                                Matches(align_string, PatLabel, 0), 1, lmap))

EquationResults(blocks, lmap) ==
    [k \in 1..Len(blocks) |-> _process_equation(blocks[k], lmap)]

ProcessEquations(w, ms, lmap) ==
    SubCallback(w, ms, EquationResults(Groups0(w, ms), lmap))

convert_equations(w, lmap) == ProcessEquations(w, Matches(w, PatEquation, DOTALL), lmap)

AlignResults(blocks, lmap) ==
    [k \in 1..Len(blocks) |-> _process_align(blocks[k], lmap)]

ProcessAligned(w, ms, lmap) ==
    SubCallback(w, ms, AlignResults(Groups0(w, ms), lmap))

convert_aligned(w, lmap) == ProcessAligned(w, Matches(w, PatAlign, DOTALL), lmap)

PatSection == Pattern(<< <<"\\section", "{">>, <<"}">> >>, TRUE, FALSE)

convert_sections(w) ==
    Sub(w, PatSection, <<Lit(<<"<h4> ">>), Grp(1), Lit(<<" </h4>">>)>>, DOTALL)

----------------------------------------------------------------------------
(* Cross references *)

RefName(tag) == IF tag = "myeqno" THEN "\\myeqno" ELSE "\\eqref"

\* r"\\%s\{.*?\}" % tag, the pattern that collects the occurrences
PatRefFind(tag) == Pattern(<< <<RefName(tag), "{">>, <<"}">> >>, FALSE, FALSE)
\* r"\\%s\s*\{\s*([\s\S]*?)\s*\}" % reftype, the pattern of _process_reference
PatRef(tag) == Pattern(<< <<RefName(tag), "{">>, <<"}">> >>, TRUE, FALSE)

\* "%s(%s)" % (prefix, number)
RefText(tag, n) == (IF tag = "myeqno" THEN <<"Eq. ">> ELSE <<>>) \o <<"(", n, ")">>

\* processref after its re.findall(refpattern, reftag) gave `found`
RenderRef(reftag, tag, lmap, found) ==
    IF found = <<>> THEN Raise("IndexError", reftag)
    ELSE IF found[1].caps[1] \notin DOMAIN lmap THEN Raise("KeyError", reftag)
    ELSE Ok(SubMatches(reftag, found, <<Lit(RefText(tag, lmap[found[1].caps[1]]))>>))

\* processref, the callback that _process_reference returns, on one match
processref(reftag, tag, lmap) ==
    RenderRef(reftag, tag, lmap, Matches(reftag, PatRef(tag), 0))

RefResults(reftags, tag, lmap) ==
    [k \in 1..Len(reftags) |-> processref(reftags[k], tag, lmap)]

ProcessRefs(w, ms, tag, lmap) ==
    SubCallback(w, ms, RefResults(Groups0(w, ms), tag, lmap))

\* re.sub(self._escape_special(itag), processref, content_modified, re.DOTALL)
SubstituteRef(w, itag, tag, lmap) ==
    ProcessRefs(w, Matches(w, CompileEscaped(_escape_special(itag)), DOTALL),
                tag, lmap)

\* the inner loop: content_modified is assigned after every occurrence, so
\* an exception leaves it as the occurrences before it made it
RECURSIVE SubstituteRefs(_, _, _, _, _)
AfterRef(r, itags, k, tag, lmap) ==
    IF r.err # "none" THEN r ELSE SubstituteRefs(r.out, itags, k + 1, tag, lmap)

SubstituteRefs(w, itags, k, tag, lmap) ==
    IF k > Len(itags) THEN Ok(w)
    ELSE AfterRef(SubstituteRef(w, itags[k], tag, lmap), itags, k, tag, lmap)

\* the occurrences re.findall collects for one tag
TagInstances(w, tag) == Groups0(w, Matches(w, PatRefFind(tag), 0))

RECURSIVE ConvertTags(_, _, _)
AfterTag(r, tag_list, lmap) ==
    IF r.err # "none" THEN r ELSE ConvertTags(r.out, Tail(tag_list), lmap)

ConvertTags(w, tag_list, lmap) ==
    IF tag_list = <<>> THEN Ok(w)
    ELSE AfterTag(SubstituteRefs(w, TagInstances(w, Head(tag_list)), 1,
                                 Head(tag_list), lmap),
                  tag_list, lmap)

convert_references(w, lmap) == ConvertTags(w, <<"myeqno", "eqref">>, lmap)

----------------------------------------------------------------------------
(* Inline formatting and serialization *)

PatEm == Pattern(<< <<"{", "\\em">>, <<"}">> >>, FALSE, FALSE)
PatBf == Pattern(<< <<"{", "\\bf">>, <<"}">> >>, FALSE, FALSE)
PatHref == Pattern(<< <<"\\href", "{">>, <<"}", "{">>, <<"}">> >>, FALSE, FALSE)

RewriteEm(w) == Sub(w, PatEm, <<Lit(<<"<i>">>), Grp(1), Lit(<<"</i>">>)>>, 0)
RewriteBf(w) == Sub(w, PatBf, <<Lit(<<"<strong>">>), Grp(1), Lit(<<"</strong>">>)>>, 0)
RewriteHref(w) ==
    Sub(w, PatHref, <<Lit(<<"<a href=\"">>), Grp(1), Lit(<<"\">">>), Grp(2),
                      Lit(<<"</a>">>)>>, 0)

\* a variant without the boldface rewrite
convert_formatting_em_href(w) == RewriteHref(RewriteEm(w))

convert_formatting(w) == RewriteHref(RewriteBf(RewriteEm(w)))

NoName == <<>>

\* "(.*?)\.tex": a lazy gap, then the lexeme ".tex"
PatTex == Pattern(<< <<>>, <<".tex">> >>, FALSE, FALSE)

\* the name write_html opens
OutputName(outfile_name, source_name) ==
    IF outfile_name = NoName
    THEN Sub(source_name, PatTex, <<Grp(1), Lit(<<"_wordpress", ".tex">>)>>, DOTALL)
    ELSE outfile_name

----------------------------------------------------------------------------
(* Converter.__init__ and the driver main(): pc is the next call of main *)

NoFile == [written |-> FALSE, name |-> <<>>, text |-> <<>>]

\* the object after Converter(texfile, auxfile), main about to start
Constructed(tex, lmap, name) ==
    /\ content = tex
    /\ working = tex
    /\ newcommand_map = _generate_newcommand_map(tex)
    /\ labelmap = lmap
    /\ texfile_name = name
    /\ outfile = NoFile
    /\ pc = "extract_text"
    /\ err = "none"
    /\ last = "__init__"
    /\ before = tex

\* one pass called by main: an exception ends the run, the buffer is what the
\* pass had assigned by then
Pass(p, r, next) ==
    /\ before' = working
    /\ last' = p
    /\ working' = r.out
    /\ err' = r.err
    /\ pc' = IF r.err = "none" THEN next ELSE "aborted"
    /\ UNCHANGED <<content, newcommand_map, labelmap, texfile_name, outfile>>

ExtractText ==
    /\ pc = "extract_text"
    /\ Pass("extract_text", Ok(extract_text(working)), "convert_newcommands")

ConvertNewcommands ==
    /\ pc = "convert_newcommands"
    /\ \E ord \in Orders(DOMAIN newcommand_map) :
         Pass("convert_newcommands",
              Ok(convert_newcommands(working, newcommand_map, ord)),
              "strip_title_elements")

StripTitleElements ==
    /\ pc = "strip_title_elements"
    /\ Pass("strip_title_elements", Ok(strip_title_elements(working)),
            "convert_inline_math")

ConvertInlineMath ==
    /\ pc = "convert_inline_math"
    /\ Pass("convert_inline_math", Ok(convert_inline_math(working)),
            "convert_equations")

ConvertEquations ==
    /\ pc = "convert_equations"
    /\ Pass("convert_equations", convert_equations(working, labelmap),
            "convert_aligned")

ConvertAligned ==
    /\ pc = "convert_aligned"
    /\ Pass("convert_aligned", convert_aligned(working, labelmap), "convert_sections")

ConvertSections ==
    /\ pc = "convert_sections"
    /\ Pass("convert_sections", Ok(convert_sections(working)), "convert_references")

ConvertReferences ==
    /\ pc = "convert_references"
    /\ Pass("convert_references", convert_references(working, labelmap),
            "convert_formatting")

ConvertFormatting ==
    /\ pc = "convert_formatting"
    /\ Pass("convert_formatting", Ok(convert_formatting(working)), "write_html")

\* converter.write_html(): no output name is given
WriteHtml ==
    /\ pc = "write_html"
    /\ outfile' = [written |-> TRUE, name |-> OutputName(NoName, texfile_name),
                   text |-> working]
    /\ before' = working
    /\ last' = "write_html"
    /\ pc' = "done"
    /\ UNCHANGED <<content, working, newcommand_map, labelmap, texfile_name, err>>

Next ==
    \/ ExtractText
    \/ ConvertNewcommands
    \/ StripTitleElements
    \/ ConvertInlineMath
    \/ ConvertEquations
    \/ ConvertAligned
    \/ ConvertSections
    \/ ConvertReferences
    \/ ConvertFormatting
    \/ WriteHtml

----------------------------------------------------------------------------
(* Inputs *)

MaxSegs == 2
MaxDriverSegs == 2
MaxBlocks == 17
MaxText == 3
MaxDoc == 5
MaxFmt == 5
MaxName == 3

RECURSIVE Flatten(_)
Flatten(ss) == IF ss = <<>> THEN <<>> ELSE Head(ss) \o Flatten(Tail(ss))

SeqsUpTo(S, n) == UNION {[1..k -> S] : k \in 0..n}

Repeat(seg, k) == Flatten([i \in 1..k |-> seg])

Label(l) == <<"\\label", "{", l, "}">>
Ref(tag, l) == <<RefName(tag), "{", l, "}">>
Equation(inner) == <<BeginEquation>> \o inner \o <<EndEquation>>
Align(inner) == <<BeginAlign>> \o inner \o <<EndAlign>>
Newcommand(name, body) ==
    <<"\\newcommand", "{">> \o name \o <<"}", "{">> \o body \o <<"}", NL>>

\* label tables an .aux file can give
LabelTables ==
    { <<>>,
      (<<"a">> :> "1") @@ (<<"b">> :> "2"),
      (<<"a">> :> "1") @@ (<<"b">> :> "2") @@ (<<"c">> :> "3"),
      (<<"a">> :> "1") @@ (<<"b">> :> "2") @@ (<<"1">> :> "3") }

PlainName == <<"paper", ".tex">>


\* the whole driver: a preamble with a macro, then a document body
DriverSegments ==
    { <<"x">>, <<BS, "R">>,
      Equation(<<"x">> \o Label("a")), Equation(Label("c")),
      Equation(Label("a") \o Label("c")),
      Align(Label("b") \o <<"x">> \o Label("a")), Align(Label("c")),
      Ref("eqref", "a"), Ref("myeqno", "c"), Ref("eqref", "c"),
      Ref("eqref", "2"),
      <<"\\section", "{", "x", "}">>, <<"{", "\\em", "x", "}">>,
      <<"$", "x", "$">>, <<"\\title", "{", "x", "}", NL>> }

Document(body) ==
    Newcommand(<<BS, "R">>, <<"y">>) \o <<BeginDocument>> \o body \o <<EndDocument>>

DriverBodies ==
    {Flatten(ss) : ss \in SeqsUpTo(DriverSegments, MaxDriverSegs)}
    \cup {Repeat(Equation(Label("a")), k) \o Equation(Label("c")) :
            k \in (MaxBlocks - 2)..(MaxBlocks - 1)}

Init ==
    \E body \in DriverBodies :
    \E lmap \in {t \in LabelTables : <<"a">> \in DOMAIN t /\ <<"1">> \notin DOMAIN t} :
        Constructed(Document(body), lmap, PlainName)

Spec == Init /\ [][Next]_vars

\* macro substitution: declarations, then text over single characters
MacroTables ==
    { <<>>,
      Newcommand(<<BS, "R">>, <<"y">>),
      Newcommand(<<BS, "R">>, <<"'", "y">>),
      Newcommand(<<BS, "R">>, <<"y">>) \o Newcommand(<<BS, "R", "Q">>, <<"x">>),
      Newcommand(<<BS, "R">>, <<"x">>) \o Newcommand(<<BS, "R">>, <<"y">>),
      Newcommand(<<BS, "Q">>, <<"x", NL, BS, "y">>) }

InitMacro ==
    \E decls \in MacroTables :
    \E text \in SeqsUpTo({BS, "R", "Q", "x", "'"}, MaxText) :
        Constructed(decls \o text, <<>>, PlainName)

SpecMacro == InitMacro /\ [][Next]_vars

\* equation environments
EquationSegments ==
    { <<"x">>, Equation(<<"y">>), Equation(<<"x">> \o Label("a")),
      Equation(Label("b") \o <<"y">> \o Label("a")), Equation(Label("c")),
      Equation(<<"y">> \o Label("c") \o Label("a")) }

InitEquations ==
    \E body \in {Flatten(ss) : ss \in SeqsUpTo(EquationSegments, MaxSegs)}
                \cup {Repeat(Equation(<<"x">> \o Label("a")), k) : k \in 0..MaxBlocks} :
    \E lmap \in LabelTables :
        Constructed(body, lmap, PlainName)

SpecEquations == InitEquations /\ [][Next]_vars

\* align environments
AlignSegments ==
    { <<"x">>, Align(<<"y">>), Align(<<"x">> \o Label("a")),
      Align(Label("b") \o <<"y">> \o Label("a")),
      Align(Label("a") \o Label("b") \o Label("a")), Align(Label("c")) }

InitAligned ==
    \E body \in {Flatten(ss) : ss \in SeqsUpTo(AlignSegments, MaxSegs)}
                \cup {Repeat(Align(Label("a") \o Label("b")), k) : k \in 0..MaxBlocks} :
    \E lmap \in LabelTables :
        Constructed(body, lmap, PlainName)

SpecAligned == InitAligned /\ [][Next]_vars

\* cross references
ReferenceSegments ==
    { <<"x">>, Ref("myeqno", "a"), Ref("myeqno", "b"), Ref("eqref", "a"),
      Ref("eqref", "b"), Ref("eqref", "c"), Ref("eqref", "1") }

InitReferences ==
    \E body \in {Flatten(ss) : ss \in SeqsUpTo(ReferenceSegments, MaxSegs)}
                \cup {Repeat(Ref("eqref", "a"), k) : k \in 0..MaxBlocks} :
    \E lmap \in LabelTables :
        Constructed(body, lmap, PlainName)

SpecReferences == InitReferences /\ [][Next]_vars

\* document body extraction
InitDocument ==
    \E tex \in SeqsUpTo({BeginDocument, EndDocument, "x", "y"}, MaxDoc) :
        Constructed(tex, <<>>, PlainName)

SpecDocument == InitDocument /\ [][Next]_vars

\* inline formatting
FormatSegments ==
    { <<"{", "\\em">>, <<"{", "\\bf">>, <<"\\href", "{">>, <<"}", "{">>, <<"}">>,
      <<"x">> }

InitFormatting ==
    \E ss \in SeqsUpTo(FormatSegments, MaxFmt) :
        Constructed(Flatten(ss), <<>>, PlainName)

SpecFormatting == InitFormatting /\ [][Next]_vars

\* source file names
InitNames ==
    \E name \in SeqsUpTo({"paper", ".tex", ".txt", "/"}, MaxName) \ {<<>>} :
    \E tex \in {<<"x">>, Document(<<"x">>)} :
        Constructed(tex, <<>>, name)

SpecNames == InitNames /\ [][Next]_vars

----------------------------------------------------------------------------
(* Properties *)

Places(b, t) == {k \in DOMAIN b : b[k] = t}

HasDocumentPair(b) ==
    \E i, j \in DOMAIN b : i < j /\ b[i] = BeginDocument /\ b[j] = EndDocument

\* C7: after extract_text, a buffer that held a document-start marker with a
\* document-end marker after it is the text between the first start marker
\* and the last end marker, both removed; any other buffer is as it was; no
\* error is raised
C7_ExtractText ==
    last = "extract_text" =>
        /\ err = "none"
        /\ pc = "convert_newcommands"
        /\ IF HasDocumentPair(before)
           THEN working = SubSeq(before, Min(Places(before, BeginDocument)) + 1,
                                 Max(Places(before, EndDocument)) - 1)
           ELSE working = before

\* a buffer with text around the markers and a second end marker was extracted
C7_Witness ==
    /\ last = "extract_text"
    /\ HasDocumentPair(before)
    /\ Cardinality(Places(before, EndDocument)) = 2
    /\ Len(working) = 3
    /\ EndDocument \in {working[k] : k \in DOMAIN working}

\* the end marker came before the start marker: nothing was extracted
C7_WitnessUnchanged ==
    /\ last = "extract_text"
    /\ Places(before, BeginDocument) # {}
    /\ Places(before, EndDocument) # {}
    /\ ~HasDocumentPair(before)
    /\ working = before

\* C10: the file write_html writes, no output name given, is not the source
\* file: its name is the source name with .tex replaced by _wordpress.tex
C10_OutputNotSource ==
    outfile.written =>
        /\ outfile.name # texfile_name
        /\ \E k \in DOMAIN texfile_name :
              /\ texfile_name[k] = ".tex"
              /\ outfile.name = SubSeq(texfile_name, 1, k - 1) \o <<"_wordpress", ".tex">>
                                \o SubSeq(texfile_name, k + 1, Len(texfile_name))

\* the source name ends in .tex and the output went to the derived name
C10_Derived ==
    /\ outfile.written
    /\ texfile_name = <<"paper", ".tex">>
    /\ outfile.name = <<"paper", "_wordpress", ".tex">>

FormatPatterns == {PatEm, PatBf, PatHref}

Span(m) == m.start..(m.end - 1)

\* no match of one formatting pattern shares a place with a match of another
Flat(b) ==
    LET ms == [p \in FormatPatterns |-> Matches(b, p, 0)]
    IN  \A p, q \in FormatPatterns :
            p # q =>
                \A i \in DOMAIN ms[p], j \in DOMAIN ms[q] :
                    Span(ms[p][i]) \cap Span(ms[q][j]) = {}

SixOrders(w) ==
    { RewriteHref(RewriteBf(RewriteEm(w))), RewriteBf(RewriteHref(RewriteEm(w))),
      RewriteHref(RewriteEm(RewriteBf(w))), RewriteEm(RewriteHref(RewriteBf(w))),
      RewriteBf(RewriteEm(RewriteHref(w))), RewriteEm(RewriteBf(RewriteHref(w))) }

RECURSIVE ExpandCommands(_, _, _)
ExpandCommands(b, map, i) ==
    IF i > Len(b) THEN <<>>
    ELSE IF b[i] = BS /\ WordRun(b, i + 1) > 0
         THEN LET name == SubSeq(b, i, i + WordRun(b, i + 1))
              IN  (IF name \in DOMAIN map THEN map[name] ELSE name)
                  \o ExpandCommands(b, map, i + 1 + WordRun(b, i + 1))
         ELSE <<b[i]>> \o ExpandCommands(b, map, i + 1)

\* C1: convert_newcommands replaces each occurrence of a macro name by
\* exactly its body and leaves every other backslash-command as it was, also
\* one whose name begins with a macro name
C1_Macros ==
    last = "convert_newcommands" =>
        working = ExpandCommands(before, newcommand_map, 1)

\* a macro of the table was used in the text and replaced by its body
C1_Replaced ==
    /\ last = "convert_newcommands"
    /\ newcommand_map = (<<BS, "R">> :> <<"y">>)
    /\ Len(before) = 11
    /\ before[10] = BS /\ before[11] = "R"
    /\ working = ExpandCommands(before, newcommand_map, 1)
    /\ working[Len(working)] = "y"

AllKnown(b, pat, lmap) ==
    LET ms == Matches(b, pat, 0)
    IN  \A k \in DOMAIN ms : ms[k].caps[1] \in DOMAIN lmap

Count(b, t) == Cardinality(Places(b, t))

\* C2: convert_equations on a buffer whose labels are all in the label table
\* rewrites every equation block: no error, no begin/end marker left, one
\* wrapper per block
C2_AllBlocks ==
    last = "convert_equations" /\ AllKnown(before, PatLabel, labelmap) =>
        /\ err = "none"
        /\ Count(working, BeginEquation) = 0
        /\ Count(working, EndEquation) = 0
        /\ Count(working, EquationClose[1]) = Count(before, BeginEquation)

\* sixteen blocks were all rewritten
C2_Sixteen ==
    /\ last = "convert_equations"
    /\ Count(before, BeginEquation) = DOTALL
    /\ Count(working, BeginEquation) = 0
    /\ Count(working, EquationClose[1]) = DOTALL

\* the text with its \label{...} directives, the first `left` of them,
\* replaced by `suffix`
RECURSIVE Relabel(_, _, _, _)
Relabel(b, i, suffix, left) ==
    IF i > Len(b) THEN <<>>
    ELSE IF left > 0 /\ MatchAt(b, <<"\\label", "{">>, i)
            /\ \E j \in (i + 2)..Len(b) : b[j] = "}"
         THEN suffix \o Relabel(b, Min({j \in (i + 2)..Len(b) : b[j] = "}"}) + 1,
                                suffix, left - 1)
         ELSE <<b[i]>> \o Relabel(b, i + 1, suffix, left)

\* the identifier of the first \label{...} of a text (<<>>: it has none)
FirstLabel(b) ==
    LET ms == Matches(b, PatLabel, 1)
    IN  IF ms = <<>> THEN <<>> ELSE ms[1].caps[1]

\* an equation block as the claim renders it: the wrapper around the inner
\* text, the labels replaced by the suffix of the first label's number
RenderedEquation(inner, lmap, Suffix(_)) ==
    LET l == FirstLabel(inner)
    IN  EquationOpen
        \o (IF l = <<>> THEN inner ELSE Relabel(inner, 1, Suffix(lmap[l]), DOTALL))
        \o EquationClose

\* the blocks convert_equations processes
Processed(b) == Matches(b, PatEquation, DOTALL)

FirstLabelsKnown(b, lmap) ==
    LET ms == Processed(b)
    IN  \A k \in DOMAIN ms : FirstLabel(ms[k].caps[1]) \in DOMAIN lmap \cup {<<>>}

EquationsRendered(b, lmap, Suffix(_)) ==
    LET ms == Processed(b)
    IN  Splice(b, ms,
               [k \in DOMAIN ms |-> RenderedEquation(ms[k].caps[1], lmap, Suffix)],
               1, 1)

FiveEscapedBlanks(n) == <<"\\ ", "\\ ", "\\ ", "\\ ", "\\ ", "(", n, ")">>

FourBlanks(n) == <<" ", " ", " ", " ", "(", n, ")">>

\* C3 as stated: a processed block with a label of the table gets the suffix
\* of four blanks and the parenthesized number; a block with no label gets no
\* suffix and no error
C3_FourBlanks ==
    last = "convert_equations" /\ FirstLabelsKnown(before, labelmap) =>
        /\ err = "none"
        /\ working = EquationsRendered(before, labelmap, FourBlanks)

\* C3: convert_equations raises no error exactly when the first label of
\* every processed block is in the table (or the block has none); then each
\* processed block has its labels replaced by five backslash-blank pairs and
\* the parenthesized number of the block's first label, and a block with no
\* label is wrapped with no suffix
C3_Suffix ==
    last = "convert_equations" =>
        /\ err = "none" <=> FirstLabelsKnown(before, labelmap)
        /\ err = "none" =>
              working = EquationsRendered(before, labelmap, FiveEscapedBlanks)

\* a block with two labels and a block with none were converted
C3_Witness ==
    /\ last = "convert_equations"
    /\ err = "none"
    /\ Len(Processed(before)) = 2
    /\ Len(Matches(Processed(before)[1].caps[1], PatLabel, 0)) = 2
    /\ FirstLabel(Processed(before)[1].caps[1]) = <<"b">>
    /\ FirstLabel(Processed(before)[2].caps[1]) = <<>>
    /\ Count(working, "2") = 2

\* where the directive opened at place i closes (0: it does not)
Closing(b, i) ==
    IF \E j \in (i + 2)..Len(b) : b[j] = "}"
    THEN Min({j \in (i + 2)..Len(b) : b[j] = "}"}) ELSE 0

\* the text with each \label{l} replaced by the suffix of l's own number
RECURSIVE RelabelOwn(_, _, _)
RelabelOwn(b, i, lmap) ==
    IF i > Len(b) THEN <<>>
    ELSE IF MatchAt(b, <<"\\label", "{">>, i) /\ Closing(b, i) # 0
         THEN FiveEscapedBlanks(lmap[SubSeq(b, i + 2, Closing(b, i) - 1)])
              \o RelabelOwn(b, Closing(b, i) + 1, lmap)
         ELSE <<b[i]>> \o RelabelOwn(b, i + 1, lmap)

AlignsRendered(b, lmap) ==
    LET ms == Matches(b, PatAlign, 0)
    IN  Splice(b, ms,
               [k \in DOMAIN ms |->
                   AlignOpen \o RelabelOwn(ms[k].caps[1], 1, lmap) \o AlignClose],
               1, 1)

\* C4: convert_aligned on a buffer whose labels are all in the label table
\* raises no error and replaces, in every align block, the i-th label by the
\* suffix of its own number, in the order of appearance
C4_Aligned ==
    last = "convert_aligned" /\ AllKnown(before, PatLabel, labelmap) =>
        /\ err = "none"
        /\ working = AlignsRendered(before, labelmap)

\* a block with the labels b, a in this order was numbered 2, 1
C4_InOrder ==
    /\ last = "convert_aligned"
    /\ err = "none"
    /\ before = Align(Label("b") \o <<"y">> \o Label("a"))
    /\ working = AlignOpen \o FiveEscapedBlanks("2") \o <<"y">>
                 \o FiveEscapedBlanks("1") \o AlignClose

Tags == {"myeqno", "eqref"}

RefAt(b, i, tag) == MatchAt(b, <<RefName(tag), "{">>, i) /\ Closing(b, i) # 0

RefLabel(b, i) == SubSeq(b, i + 2, Closing(b, i) - 1)

\* the places of the reference directives whose label is in the table
RefPlaces(b, lmap) ==
    {i \in DOMAIN b : \E tag \in Tags : RefAt(b, i, tag) /\ RefLabel(b, i) \in DOMAIN lmap}

Rendering(tag, n) == IF tag = "myeqno" THEN <<"Eq. ", "(", n, ")">> ELSE <<"(", n, ")">>

\* the text with the reference directives at the places of S replaced by
\* "Eq. (n)" or "(n)", n the number of the directive's own label
RECURSIVE RenderAt(_, _, _, _)
RenderAt(b, i, lmap, S) ==
    IF i > Len(b) THEN <<>>
    ELSE IF i \in S
         THEN Rendering(CHOOSE tag \in Tags : RefAt(b, i, tag), lmap[RefLabel(b, i)])
              \o RenderAt(b, Closing(b, i) + 1, lmap, S)
         ELSE <<b[i]>> \o RenderAt(b, i + 1, lmap, S)

RefsKnown(b, lmap) ==
    \A tag \in Tags : AllKnown(b, PatRefFind(tag), lmap)

\* C5: convert_references on a buffer whose referenced labels are all in the
\* table raises no error and replaces every \myeqno{L} by "Eq. (n)" and every
\* \eqref{L} by "(n)", n the number of L, changing nothing else
C5_References ==
    last = "convert_references" /\ RefsKnown(before, labelmap) =>
        /\ err = "none"
        /\ working = RenderAt(before, 1, labelmap, RefPlaces(before, labelmap))

\* two references of both kinds to one label, and one to another, resolved
C5_Resolved ==
    /\ last = "convert_references"
    /\ before = Ref("eqref", "a") \o Ref("myeqno", "a")
    /\ working = <<"(", "1", ")", "Eq. ", "(", "1", ")">>

\* C6: the output file is written only after all passes completed without
\* error; a label of an equation or align block, or of a reference, that is
\* not in the label table raises in its pass, the run stops there and never
\* writes the file
C6_NoOutputOnMissingLabel ==
    /\ outfile.written => pc = "done" /\ err = "none"
    /\ err # "none" => pc = "aborted" /\ ~outfile.written
    /\ outfile.written =>
          AllKnown(content, PatLabel, labelmap) /\ RefsKnown(content, labelmap)

\* a run stopped on a missing label with no file written
C6_Stopped ==
    /\ err = "KeyError"
    /\ pc = "aborted"
    /\ last = "convert_aligned"
    /\ ~outfile.written

\* C8 as stated: a pass that aborts leaves the buffer as it was before it
C8_AllOrNothing == err # "none" => working = before

\* C8: a pass that aborts in convert_equations or convert_aligned leaves the
\* buffer as it was before the pass; one that aborts in convert_references
\* leaves the buffer of before the pass with some of its references, labels
\* in the table, already rendered; no other pass aborts
C8_Abort ==
    err # "none" =>
        /\ pc = "aborted"
        /\ last \in {"convert_equations", "convert_aligned", "convert_references"}
        /\ last # "convert_references" => working = before
        /\ last = "convert_references" =>
              \E S \in SUBSET RefPlaces(before, labelmap) :
                  working = RenderAt(before, 1, labelmap, S)

\* convert_references failed after it had rewritten a reference
C8_Partial ==
    /\ err # "none"
    /\ last = "convert_references"
    /\ working # before
    /\ RefPlaces(working, labelmap) = {}

====
